---- MODULE Spec2Model ----
(***************************************************************************)
(* A model of app_utilities: the numeric type selectors (numbers.py), the  *)
(* configuration loader and its helpers (loading.py) and the directory     *)
(* helper (path.py).                                                       *)
(*                                                                         *)
(* Python integers are unbounded, so an integer is modelled as a sign and  *)
(* a sequence of decimal digits, most significant first, and compared      *)
(* digit by digit.  Strings are sequences of one-character strings.        *)
(***************************************************************************)
EXTENDS Integers, Sequences, FiniteSets, TLC

VARIABLES op, input, output, opened, fs, returned

vars == <<op, input, output, opened, fs, returned>>

(***************************************************************************)
(* Unbounded integers                                                      *)
(***************************************************************************)

RECURSIVE Rev(_)
Rev(s) == IF s = <<>> THEN <<>> ELSE Rev(Tail(s)) \o <<Head(s)>>

RECURSIVE StripZeros(_)
\* drops the leading zeros of a most-significant-first digit sequence
StripZeros(s) ==
    IF Len(s) > 1 /\ Head(s) = 0 THEN StripZeros(Tail(s)) ELSE s

RECURSIVE AddLE(_, _, _)
\* sum of two least-significant-first digit sequences and a carry
AddLE(x, y, c) ==
    IF x = <<>> /\ y = <<>>
    THEN IF c = 0 THEN <<>> ELSE <<c>>
    ELSE LET a == IF x = <<>> THEN 0 ELSE Head(x)
             b == IF y = <<>> THEN 0 ELSE Head(y)
             t == a + b + c
         IN  <<t % 10>> \o AddLE(IF x = <<>> THEN <<>> ELSE Tail(x),
                                 IF y = <<>> THEN <<>> ELSE Tail(y),
                                 t \div 10)

RECURSIVE SubLE(_, _, _)
\* difference x - y - borrow of least-significant-first digit sequences, x >= y
SubLE(x, y, b) ==
    IF x = <<>>
    THEN <<>>
    ELSE LET s == IF y = <<>> THEN 0 ELSE Head(y)
             t == Head(x) - s - b
         IN  <<IF t < 0 THEN t + 10 ELSE t>>
             \o SubLE(Tail(x), IF y = <<>> THEN <<>> ELSE Tail(y),
                      IF t < 0 THEN 1 ELSE 0)

MagAdd(x, y) == StripZeros(Rev(AddLE(Rev(x), Rev(y), 0)))

MagSub(x, y) == StripZeros(Rev(SubLE(Rev(x), Rev(y), 0)))

RECURSIVE LexLess(_, _)
\* x < y for digit sequences of the same length
LexLess(x, y) ==
    IF x = <<>> THEN FALSE
    ELSE IF Head(x) # Head(y) THEN Head(x) < Head(y)
    ELSE LexLess(Tail(x), Tail(y))

MagLess(x, y) ==
    \/ Len(x) < Len(y)
    \/ Len(x) = Len(y) /\ LexLess(x, y)

\* the integer with the given sign and magnitude; zero is never negative
MkInt(neg, mag) ==
    LET m == StripZeros(mag)
    IN  [neg |-> neg /\ m # <<0>>, mag |-> m]

Nat10(mag) == MkInt(FALSE, mag)

IntNeg(a) == MkInt(~a.neg, a.mag)

\* a < b on integers
IntLess(a, b) ==
    IF a.neg /\ ~b.neg THEN TRUE
    ELSE IF ~a.neg /\ b.neg THEN FALSE
    ELSE IF a.neg THEN MagLess(b.mag, a.mag)
    ELSE MagLess(a.mag, b.mag)

\* a <= b on integers
IntLeq(a, b) == ~IntLess(b, a)

IntAdd(a, b) ==
    IF a.neg = b.neg THEN MkInt(a.neg, MagAdd(a.mag, b.mag))
    ELSE IF MagLess(a.mag, b.mag) THEN MkInt(b.neg, MagSub(b.mag, a.mag))
    ELSE MkInt(a.neg, MagSub(a.mag, b.mag))

RECURSIVE SmallMag(_)
\* the decimal digits of a small natural number
SmallMag(k) == IF k < 10 THEN <<k>> ELSE SmallMag(k \div 10) \o <<k % 10>>

SmallInt(k) == IF k < 0 THEN MkInt(TRUE, SmallMag(0 - k)) ELSE MkInt(FALSE, SmallMag(k))

RECURSIVE Shl(_, _)
\* a * 2^k by k doublings
Shl(a, k) == IF k = 0 THEN a ELSE LET h == Shl(a, k - 1) IN IntAdd(h, h)

\* powers of two, built in steps of sixteen doublings
Pow2_16 == Shl(SmallInt(1), 16)
Pow2_32 == Shl(Pow2_16, 16)
Pow2_48 == Shl(Pow2_32, 16)

Pow2(k) ==
    IF k < 16 THEN Shl(SmallInt(1), k)
    ELSE IF k < 32 THEN Shl(Pow2_16, k - 16)
    ELSE IF k < 48 THEN Shl(Pow2_32, k - 32)
    ELSE Shl(Pow2_48, k - 48)

\* 10^k
Pow10(k) == MkInt(FALSE, <<1>> \o [i \in 1 .. k |-> 0])

(***************************************************************************)
(* numbers.py                                                              *)
(***************************************************************************)

\* the literals of the comparisons, digit for digit
INT8_MAX == Nat10(<<1,2,7>>)
INT16_MAX == Nat10(<<3,2,7,6,7>>)
INT32_MAX == Nat10(<<2,1,4,7,4,8,3,6,4,7>>)
INT64_MAX == Nat10(<<9,2,2,3,3,7,2,0,3,6,8,5,4,7,7,5,8,0,7>>)
UINT8_MAX == Nat10(<<2,5,5>>)
UINT16_MAX == Nat10(<<6,5,5,3,5>>)
UINT32_MAX == Nat10(<<4,2,9,4,9,6,7,2,9,5>>)
UINT64_MAX == Nat10(<<1,8,4,4,6,7,4,4,0,7,3,7,0,9,5,5,1,6,1,5>>)

\* the float literal 3.4028235e+38: Python compares an int with a float
\* exactly, and the double nearest to the literal is this integer
FLOAT32_MAX ==
    Nat10(<<3,4,0,2,8,2,3,4,9,9,9,9,9,9,9,9,9,1,7,5,
            4,7,8,8,7,4,3,7,8,1,4,3,2,6,8,8,6,4,0>>)

\* get_optimal_intype with the first bound exclusive
get_optimal_intype_exclusive(number) ==
    IF IntLess(number, INT8_MAX) THEN "int8"
    ELSE IF IntLeq(number, INT16_MAX) THEN "int16"
    ELSE IF IntLeq(number, INT32_MAX) THEN "int32"
    ELSE IF IntLeq(number, INT64_MAX) THEN "int64"
    ELSE IF IntLeq(number, FLOAT32_MAX) THEN "float32"
    ELSE "float64"

get_optimal_intype(number) ==
    IF IntLeq(number, INT8_MAX) THEN "int8"
    ELSE IF IntLeq(number, INT16_MAX) THEN "int16"
    ELSE IF IntLeq(number, INT32_MAX) THEN "int32"
    ELSE IF IntLeq(number, INT64_MAX) THEN "int64"
    ELSE IF IntLeq(number, FLOAT32_MAX) THEN "float32"
    ELSE "float64"

get_optimal_uintype(number) ==
    IF IntLess(number, UINT8_MAX) THEN "uint8"
    ELSE IF IntLess(number, UINT16_MAX) THEN "uint16"
    ELSE IF IntLess(number, UINT32_MAX) THEN "uint32"
    ELSE IF IntLess(number, UINT64_MAX) THEN "uint64"
    ELSE IF IntLeq(number, FLOAT32_MAX) THEN "float32"
    ELSE "float64"

\* how far around each boundary the inputs are taken
Delta == 2

\* the values around which the selectors change their answer
Boundaries ==
    {SmallInt(0), SmallInt(42), SmallInt(1000), Pow10(10),
     Pow2(7), Pow2(8), Pow2(15), Pow2(16), Pow2(31), Pow2(32),
     Pow2(63), Pow2(64), FLOAT32_MAX,
     MkInt(FALSE, <<3,4,0,2,8,2,3,5>> \o [i \in 1 .. 31 |-> 0]), Pow10(40)}

Numbers ==
    UNION {{IntAdd(b, SmallInt(d)), IntNeg(IntAdd(b, SmallInt(d)))} :
           <<b, d>> \in Boundaries \X ((0 - Delta) .. Delta)}

Pending == [kind |-> "pending"]

Return(v) == [kind |-> "return", value |-> v]

Raise(exc, msg) == [kind |-> "raise", exc |-> exc, message |-> msg]

(***************************************************************************)
(* Strings                                                                 *)
(***************************************************************************)

SetMin(S) == CHOOSE x \in S : \A y \in S : x <= y

\* the elements of s at the indexes in K, in order
SelectIdx(s, K) ==
    [j \in 1 .. Cardinality(K) |->
        s[CHOOSE i \in K : Cardinality({k \in K : k <= i}) = j]]

\* str.replace(pat, ''), for a pattern no two occurrences of which overlap
RemoveAll(s, pat) ==
    LET n == Len(pat)
        starts == {i \in 1 .. Len(s) - n + 1 : SubSeq(s, i, i + n - 1) = pat}
        covered == {j \in 1 .. Len(s) : \E i \in starts : i <= j /\ j < i + n}
    IN  IF starts = {} THEN s ELSE SelectIdx(s, (1 .. Len(s)) \ covered)

\* str.strip(chars)
Strip(s, chars) ==
    LET keep == {i \in 1 .. Len(s) : s[i] \notin chars}
    IN  IF keep = {} THEN <<>>
        ELSE SubSeq(s, CHOOSE i \in keep : \A j \in keep : i <= j,
                       CHOOSE i \in keep : \A j \in keep : j <= i)

\* A character is its Unicode code point, a string the sequence of its
\* characters.  The characters the functions name:
LINE_FEED == 10

SPACE == 32

QUOTE == 34

PLUS == 43

HYPHEN == 45

DOT == 46

SLASH == 47

ZERO == 48

EQUALS == 61

UPPER_A == 65

UPPER_X == 88

UNDERSCORE == 95

LOWER_A == 97

LOWER_X == 120

LEFT_BRACE == 123

RIGHT_BRACE == 125

\* 'urn:'
URN == <<117, 114, 110, 58>>

\* 'uuid:'
UUID_PREFIX == <<117, 117, 105, 100, 58>>

\* the characters of which str.isspace holds, the ones \s matches in a str
\* pattern: \t \n \v \f \r, the separators 0x1c to 0x1f, the space, 0x85,
\* 0xa0 and the Unicode spaces
UnicodeWhitespace ==
    {9, 10, 11, 12, 13, 28, 29, 30, 31, 32, 133, 160, 5760}
        \cup (8192 .. 8202) \cup {8232, 8233, 8239, 8287, 12288}

\* the whitespace int() skips around the digits once the string is ASCII
AsciiWhitespace == {9, 10, 11, 12, 13, 32}

\* the zeros of the decimal digits (category Nd) of Unicode 14.0: each is
\* followed by its digits one to nine
DecimalZeros ==
    {48, 1632, 1776, 1984, 2406, 2534, 2662, 2790, 2918, 3046, 3174,
     3302, 3430, 3558, 3664, 3792, 3872, 4160, 4240, 6112, 6160, 6470,
     6608, 6784, 6800, 6992, 7088, 7232, 7248, 42528, 43216, 43264,
     43472, 43504, 43600, 44016, 65296, 66720, 68912, 69734, 69872,
     69942, 70096, 70384, 70736, 70864, 71248, 71360, 71472, 71904,
     72016, 72784, 73040, 73120, 92768, 92864, 93008, 120782, 120792,
     120802, 120812, 120822, 123200, 123632, 125264, 130032}

IsDecimal(c) == \E z \in DecimalZeros : z <= c /\ c <= z + 9

DecimalValue(c) == c - (CHOOSE z \in DecimalZeros : z <= c /\ c <= z + 9)

\* what int() reads in the place of a character: a decimal digit of any
\* script is its ASCII digit, a whitespace character above ASCII a space and
\* any other character above ASCII a question mark, which no number holds
ToAscii(c) ==
    IF c < 127 THEN c
    ELSE IF c \in UnicodeWhitespace THEN SPACE
    ELSE IF IsDecimal(c) THEN ZERO + DecimalValue(c)
    ELSE 63

IsHex(c) ==
    \/ ZERO <= c /\ c <= ZERO + 9
    \/ LOWER_A <= c /\ c <= LOWER_A + 5
    \/ UPPER_A <= c /\ c <= UPPER_A + 5

HexVal(c) ==
    IF c <= ZERO + 9 THEN c - ZERO
    ELSE IF c >= LOWER_A THEN c - LOWER_A + 10
    ELSE c - UPPER_A + 10

\* the element of a one-element set; {F(x) : x \in {e}} evaluates e once
Only(S) == CHOOSE x \in S : TRUE

\* the digits of int(w, 16), w being the text after sign and prefix: single
\* underscores between digits are accepted
HexDigitsOf(w) ==
    IF /\ w # <<>>
       /\ \A i \in 1 .. Len(w) : IsHex(w[i]) \/ w[i] = UNDERSCORE
       /\ w[1] # UNDERSCORE /\ w[Len(w)] # UNDERSCORE
       /\ \A i \in 1 .. Len(w) - 1 : ~(w[i] = UNDERSCORE /\ w[i + 1] = UNDERSCORE)
    THEN [ok |-> TRUE,
          digits |-> Only({[i \in 1 .. Len(body) |-> HexVal(body[i])] :
                           body \in {SelectSeq(w, IsHex)}})]
    ELSE [ok |-> FALSE]

\* int(u, 16) after the sign: a 0x prefix, and an underscore after it, are accepted
Unprefixed(u) ==
    IF Len(u) >= 2 /\ u[1] = ZERO /\ u[2] \in {LOWER_X, UPPER_X}
    THEN IF Len(u) >= 3 /\ u[3] = UNDERSCORE THEN SubSeq(u, 4, Len(u)) ELSE SubSeq(u, 3, Len(u))
    ELSE u

Unsigned(t) == IF t # <<>> /\ Head(t) = PLUS THEN Tail(t) ELSE t

\* int(s, 16) for a string without a minus sign: the digits of every script
\* are read as ASCII digits; surrounding whitespace, a plus sign, a 0x prefix
\* and single underscores between digits are accepted; the result is the
\* sequence of the hexadecimal digits, or a ValueError
IntBase16(s) ==
    Only({HexDigitsOf(w) :
          w \in {Only({Unprefixed(u) :
                       u \in {Only({Unsigned(t) :
                                    t \in {Strip([i \in DOMAIN s |-> ToAscii(s[i])],
                                                 AsciiWhitespace)}})}})}})

LeftPad(digits) == [i \in 1 .. 32 - Len(digits) |-> 0] \o digits

UuidOfInt(n) == IF n.ok THEN [ok |-> TRUE, int |-> LeftPad(n.digits)] ELSE [ok |-> FALSE]

UuidOfHex(h) ==
    IF Len(h) # 32 THEN [ok |-> FALSE]
    ELSE Only({UuidOfInt(n) : n \in {IntBase16(h)}})

\* uuid.UUID(hex): the 128-bit value as 32 hexadecimal digits, or a ValueError
UUID(hex) ==
    Only({UuidOfHex(h) :
          h \in {SelectSeq(Strip(RemoveAll(RemoveAll(hex, URN), UUID_PREFIX),
                                 {LEFT_BRACE, RIGHT_BRACE}),
                           LAMBDA c : c # HYPHEN)}})

\* '3fa85f64-5717-4562-b3fc-2c963f66afa6'
KEY_LOWER ==
    <<51, 102, 97, 56, 53, 102, 54, 52, 45, 53, 55, 49, 55, 45, 52, 53,
      54, 50, 45, 98, 51, 102, 99, 45, 50, 99, 57, 54, 51, 102, 54, 54,
      97, 102, 97, 54>>

\* '3FA85F64-5717-4562-B3FC-2C963F66AFA6'
KEY_UPPER ==
    <<51, 70, 65, 56, 53, 70, 54, 52, 45, 53, 55, 49, 55, 45, 52, 53,
      54, 50, 45, 66, 51, 70, 67, 45, 50, 67, 57, 54, 51, 70, 54, 54,
      65, 70, 65, 54>>

\* 'urn:uuid:3fa85f64-5717-4562-b3fc-2c963f66afa6'
KEY_URN ==
    <<117, 114, 110, 58, 117, 117, 105, 100, 58, 51, 102, 97, 56, 53,
      102, 54, 52, 45, 53, 55, 49, 55, 45, 52, 53, 54, 50, 45, 98, 51,
      102, 99, 45, 50, 99, 57, 54, 51, 102, 54, 54, 97, 102, 97, 54>>

\* '{3fa85f64-5717-4562-b3fc-2c963f66afa6}'
KEY_BRACES ==
    <<123, 51, 102, 97, 56, 53, 102, 54, 52, 45, 53, 55, 49, 55, 45, 52,
      53, 54, 50, 45, 98, 51, 102, 99, 45, 50, 99, 57, 54, 51, 102, 54,
      54, 97, 102, 97, 54, 125>>

\* '+fa85f64-5717-4562-b3fc-2c963f66afa6'
KEY_PLUS ==
    <<43, 102, 97, 56, 53, 102, 54, 52, 45, 53, 55, 49, 55, 45, 52, 53,
      54, 50, 45, 98, 51, 102, 99, 45, 50, 99, 57, 54, 51, 102, 54, 54,
      97, 102, 97, 54>>

\* '3fa85f64-5717-4562-b3fc-2c963f66afa'
KEY_SHORT ==
    <<51, 102, 97, 56, 53, 102, 54, 52, 45, 53, 55, 49, 55, 45, 52, 53,
      54, 50, 45, 98, 51, 102, 99, 45, 50, 99, 57, 54, 51, 102, 54, 54,
      97, 102, 97>>

\* '00000000-0000-0000-0000-000000000001'
KEY_OTHER ==
    <<48, 48, 48, 48, 48, 48, 48, 48, 45, 48, 48, 48, 48, 45, 48, 48,
      48, 48, 45, 48, 48, 48, 48, 45, 48, 48, 48, 48, 48, 48, 48, 48,
      48, 48, 48, 49>>

\* 'not-a-uuid'
KEY_WORD ==
    <<110, 111, 116, 45, 97, 45, 117, 117, 105, 100>>

\* '3fa85f64-5717-4562-b3fc-2c963f66afag'
KEY_NOT_HEX ==
    <<51, 102, 97, 56, 53, 102, 54, 52, 45, 53, 55, 49, 55, 45, 52, 53,
      54, 50, 45, 98, 51, 102, 99, 45, 50, 99, 57, 54, 51, 102, 54, 54,
      97, 102, 97, 103>>

\* 'ffffffff-ffff-ffff-ffff-ffffffffffff'
KEY_ABSENT ==
    <<102, 102, 102, 102, 102, 102, 102, 102, 45, 102, 102, 102, 102,
      45, 102, 102, 102, 102, 45, 102, 102, 102, 102, 45, 102, 102, 102,
      102, 102, 102, 102, 102, 102, 102, 102, 102>>

\* a form feed and '0000000-0000-0000-0000-000000000001'
KEY_FORM_FEED ==
    <<12, 48, 48, 48, 48, 48, 48, 48, 45, 48, 48, 48, 48, 45, 48, 48,
      48, 48, 45, 48, 48, 48, 48, 45, 48, 48, 48, 48, 48, 48, 48, 48,
      48, 48, 48, 49>>

\* KEY_LOWER with the fullwidth digit three in the place of its first character
KEY_FULLWIDTH ==
    <<65299, 102, 97, 56, 53, 102, 54, 52, 45, 53, 55, 49, 55, 45, 52,
      53, 54, 50, 45, 98, 51, 102, 99, 45, 50, 99, 57, 54, 51, 102, 54,
      54, 97, 102, 97, 54>>

\* the file separator 0x1c and '0000000-0000-0000-0000-000000000001'
KEY_SEPARATOR ==
    <<28, 48, 48, 48, 48, 48, 48, 48, 45, 48, 48, 48, 48, 45, 48, 48,
      48, 48, 45, 48, 48, 48, 48, 45, 48, 48, 48, 48, 48, 48, 48, 48,
      48, 48, 48, 49>>

(***************************************************************************)
(* loading.py: check_keys_not_missing and load_config_from_path            *)
(***************************************************************************)

\* the elements of K, ascending
Ascending(K) ==
    [j \in 1 .. Cardinality(K) |-> CHOOSE i \in K : Cardinality({k \in K : k <= i}) = j]

\* the pieces of s between the characters of seps, empty pieces included
Split(s, seps) ==
    LET cuts == Ascending({0, Len(s) + 1} \cup {i \in 1 .. Len(s) : s[i] \in seps})
    IN  [j \in 1 .. Len(cuts) - 1 |-> SubSeq(s, cuts[j] + 1, cuts[j + 1] - 1)]

\* sep.join(names), as the sequence of its pieces
Join(names, sep) ==
    [i \in 1 .. (IF names = <<>> THEN 0 ELSE 2 * Len(names) - 1) |->
        IF i % 2 = 1 THEN names[(i + 1) \div 2] ELSE sep]

\* the orders in which the elements of a set can be iterated
Orders(S) ==
    {o \in [1 .. Cardinality(S) -> S] : \A i, j \in DOMAIN o : o[i] = o[j] => i = j}

None == [none |-> TRUE]

\* check_keys_not_missing reporting the first missing key it meets only
check_keys_first_missing_only(required_keys, mapping, mapping_name) ==
    LET required ==
            IF required_keys.is_set THEN required_keys.set
            ELSE {required_keys.list[i] : i \in DOMAIN required_keys.list}
        missing_keys == required \ DOMAIN mapping
        error_suffix ==
            IF mapping_name.given /\ mapping_name.name # ""
            THEN <<" in ", mapping_name.name, ".">> ELSE <<".">>
    IN  IF missing_keys = {}
        THEN {Return(None)}
        ELSE {Raise("KeyError", <<"missing keys ", k>> \o error_suffix) : k \in missing_keys}

\* the outcomes of check_keys_not_missing, one for each iteration order of
\* the set of missing keys
check_keys_not_missing(required_keys, mapping, mapping_name) ==
    LET required ==
            IF required_keys.is_set THEN required_keys.set
            ELSE {required_keys.list[i] : i \in DOMAIN required_keys.list}
        missing_keys == required \ DOMAIN mapping
        error_suffix ==
            IF mapping_name.given /\ mapping_name.name # ""
            THEN <<" in ", mapping_name.name, ".">> ELSE <<".">>
    IN  IF missing_keys = {}
        THEN {Return(None)}
        ELSE {Raise("KeyError", <<"missing keys ">> \o Join(o, ", ") \o error_suffix) :
                o \in Orders(missing_keys)}

\* the components of Path(path): the pieces between the slashes, the empty
\* ones and the '.' ones dropped
PathParts(path) == SelectSeq(Split(path, {SLASH}), LAMBDA c : c # <<>> /\ c # <<DOT>>)

\* the root of Path(path): two leading slashes are kept, any other number of
\* them is one slash
PathRoot(path) ==
    LET leading == {i \in 1 .. Len(path) : \A j \in 1 .. i : path[j] = SLASH}
    IN  IF leading = {} THEN <<>>
        ELSE IF Cardinality(leading) = 2 THEN <<SLASH, SLASH>>
        ELSE <<SLASH>>

\* the components, a slash between each two
RECURSIVE JoinParts(_)
JoinParts(parts) ==
    IF parts = <<>> THEN <<>>
    ELSE IF Len(parts) = 1 THEN parts[1]
    ELSE parts[1] \o <<SLASH>> \o JoinParts(Tail(parts))

\* str(Path(path)), which is what an f-string shows of the path
PathStr(path) ==
    IF PathRoot(path) = <<>> /\ PathParts(path) = <<>> THEN <<DOT>>
    ELSE PathRoot(path) \o JoinParts(PathParts(path))

\* PurePath.name: the last component of the path
PathName(path) ==
    LET parts == PathParts(path)
    IN  IF parts = <<>> THEN <<>> ELSE parts[Len(parts)]

\* the suffix of a name: the name from its last dot on, unless that dot is
\* the first or the last character of the name
NameSuffix(name) ==
    LET dots == {i \in 1 .. Len(name) : name[i] = DOT}
        i == CHOOSE d \in dots : \A e \in dots : e <= d
    IN  IF dots # {} /\ 1 < i /\ i < Len(name) THEN SubSeq(name, i, Len(name)) ELSE <<>>

\* PurePath.suffix
PathSuffix(path) == Only({NameSuffix(name) : name \in {PathName(path)}})

\* '.json'
DOT_JSON == <<46, 106, 115, 111, 110>>

\* the loop leaving at the last matching entry instead of the first
Matched_last(document, required_keys, config_uuid, matches) ==
    IF matches = {}
    THEN {[out |-> Raise("KeyError",
                         <<"config_uuid ", config_uuid, " not found as key in app_config.">>),
           opened |-> 1]}
    ELSE {[out |-> IF r.kind = "raise" THEN r ELSE Return(config), opened |-> 1] :
            <<config, r>> \in
                UNION {{<<c, q>> : q \in check_keys_not_missing(
                                             required_keys, c, [given |-> TRUE, name |-> "config"])} :
                       c \in {document[CHOOSE i \in matches : \A j \in matches : j <= i].value}}}

\* the loop without its else clause: when no key matches, config is the value
\* of the last entry the loop visited
Matched_no_else(document, required_keys, config_uuid, matches) ==
    IF matches = {} /\ document = <<>>
    THEN {[out |-> Raise("UnboundLocalError", <<"config">>), opened |-> 1]}
    ELSE {[out |-> IF r.kind = "raise" THEN r ELSE Return(config), opened |-> 1] :
            <<config, r>> \in
                UNION {{<<c, q>> : q \in check_keys_not_missing(
                                             required_keys, c, [given |-> TRUE, name |-> "config"])} :
                       c \in {document[IF matches = {} THEN Len(document)
                                       ELSE SetMin(matches)].value}}}

\* the loop over the items of the document and what follows it, matches being
\* the positions of the entries whose key parses to config_uuid: the loop
\* leaves at the first of them
Matched(document, required_keys, config_uuid, matches) ==
    IF matches = {}
    THEN {[out |-> Raise("KeyError",
                         <<"config_uuid ", config_uuid, " not found as key in app_config.">>),
           opened |-> 1]}
    ELSE {[out |-> IF r.kind = "raise" THEN r ELSE Return(config), opened |-> 1] :
            <<config, r>> \in
                UNION {{<<c, q>> : q \in check_keys_not_missing(
                                             required_keys, c, [given |-> TRUE, name |-> "config"])} :
                       c \in {document[SetMin(matches)].value}}}

\* load_config_from_path looking at the suffix only after it has read the file
load_config_suffix_after_read(config_path, is_file, document, required_keys, config_uuid) ==
    IF ~is_file
    THEN {[out |-> Raise("FileNotFoundError", <<PathStr(config_path), " not found.">>), opened |-> 0]}
    ELSE IF PathSuffix(config_path) # DOT_JSON
    THEN {[out |-> Raise("TypeError", <<PathStr(config_path), " must be a .json file.">>), opened |-> 1]}
    ELSE Only({Matched(document, required_keys, config_uuid, matches) :
               matches \in {{i \in DOMAIN document :
                               \E u \in {UUID(document[i].key)} :
                                   u.ok /\ u.int = config_uuid}}})

\* the outcomes of load_config_from_path on a path that is_file tells to be an
\* existing file or not and whose content decodes to document: the result
\* and the number of times the file was opened
load_config_from_path(config_path, is_file, document, required_keys, config_uuid) ==
    IF ~is_file
    THEN {[out |-> Raise("FileNotFoundError", <<PathStr(config_path), " not found.">>), opened |-> 0]}
    ELSE IF PathSuffix(config_path) # DOT_JSON
    THEN {[out |-> Raise("TypeError", <<PathStr(config_path), " must be a .json file.">>), opened |-> 0]}
    ELSE Only({Matched(document, required_keys, config_uuid, matches) :
               matches \in {{i \in DOMAIN document :
                               \E u \in {UUID(document[i].key)} :
                                   u.ok /\ u.int = config_uuid}}})

(***************************************************************************)
(* loading.py: env_string_to_dict                                          *)
(***************************************************************************)

\* the characters at which str.splitlines breaks a line: \n \v \f \r, the
\* separators 0x1c to 0x1e, 0x85 and the line and paragraph separators
LineBreaks == {10, 11, 12, 13, 28, 29, 30, 133, 8232, 8233}

\* the class [\s+] of the pattern: a whitespace character or a plus sign
SpaceOrPlus == UnicodeWhitespace \cup {PLUS}

RECURSIVE ReSplitFrom(_, _, _)
\* the pieces of s from position start on, the scan for the next match of
\* [\s+]=[\s+] being at position i; matches are taken leftmost and never overlap
ReSplitFrom(s, start, i) ==
    IF i + 2 > Len(s)
    THEN <<SubSeq(s, start, Len(s))>>
    ELSE IF s[i] \in SpaceOrPlus /\ s[i + 1] = EQUALS /\ s[i + 2] \in SpaceOrPlus
    THEN <<SubSeq(s, start, i - 1)>> \o ReSplitFrom(s, i + 3, i + 3)
    ELSE ReSplitFrom(s, start, i + 1)

\* re.split(r'[\s+]=[\s+]', line)
ReSplit(line) == ReSplitFrom(line, 1, 1)

\* dict(items): every item must have two elements; a later item replaces an
\* earlier one of the same key
DictOf(items) ==
    LET bad == {i \in DOMAIN items : Len(items[i]) # 2}
    IN  IF bad # {}
        THEN Raise("ValueError",
                   <<"dictionary update sequence element #", SetMin(bad) - 1,
                     " has length ", Len(items[SetMin(bad)]), "; 2 is required">>)
        ELSE Return([k \in {items[i][1] : i \in DOMAIN items} |->
                        items[CHOOSE i \in DOMAIN items :
                                /\ items[i][1] = k
                                /\ \A j \in DOMAIN items : items[j][1] = k => j <= i][2]])

\* the non-empty lines of the string without its quotation marks
EnvLines(env_string) ==
    SelectSeq(Split(SelectSeq(env_string, LAMBDA c : c # QUOTE), LineBreaks),
              LAMBDA l : l # <<>>)

env_string_to_dict(env_string) ==
    Only({DictOf([i \in DOMAIN lines |-> ReSplit(lines[i])]) :
          lines \in {EnvLines(env_string)}})

(***************************************************************************)
(* The calls: Init draws the function and its arguments, the action of the *)
(* function applies it.                                                    *)
(***************************************************************************)

NumberCalls ==
    {[fn |-> f, number |-> n] : f \in {"get_optimal_intype", "get_optimal_uintype"}, n \in Numbers}

\* how many entries a configuration document has at most
MaxEntries == 2

Fields == {"a", "b", "c", "d"}

Mappings ==
    {<<>>, "a" :> 1, ("a" :> 1) @@ ("b" :> 2), ("a" :> 2) @@ ("b" :> 2) @@ ("c" :> 3)}

MappingNames == {[given |-> FALSE], [given |-> TRUE, name |-> ""], [given |-> TRUE, name |-> "config"]}

SetOf(S) == [is_set |-> TRUE, set |-> S]

ListOf(l) == [is_set |-> FALSE, list |-> l]

CheckKeysCalls ==
    {[fn |-> "check_keys_not_missing", required_keys |-> r, mapping |-> m, mapping_name |-> n] :
        r \in {SetOf(S) : S \in SUBSET Fields} \cup {ListOf(<<"a", "b", "a">>), ListOf(<<"d", "c", "d">>)},
        m \in Mappings, n \in MappingNames}

Keys == {KEY_LOWER, KEY_UPPER, KEY_OTHER, KEY_WORD, KEY_NOT_HEX}

MoreKeys ==
    Keys \cup {KEY_URN, KEY_BRACES, KEY_PLUS, KEY_SHORT, KEY_FORM_FEED, KEY_FULLWIDTH,
               KEY_SEPARATOR, <<>>}

ConfigRecords == {"a" :> 1, ("a" :> 1) @@ ("b" :> 2), ("a" :> 2) @@ ("b" :> 2) @@ ("c" :> 3)}

Entries == {[key |-> k, value |-> v] : k \in Keys, v \in ConfigRecords}

\* the decoded documents: the entries of a JSON object in document order,
\* no key twice
Documents ==
    UNION {{d \in [1 .. n -> Entries] : \A i, j \in 1 .. n : d[i].key = d[j].key => i = j} :
           n \in 0 .. MaxEntries}

Targets == {UUID(KEY_LOWER).int, UUID(KEY_OTHER).int, UUID(KEY_ABSENT).int}

LoadRequired == {SetOf({}), SetOf({"a", "b"}), SetOf({"a", "c"}), ListOf(<<"b", "a", "b">>)}

\* 'config.json'
CONFIG_JSON ==
    <<99, 111, 110, 102, 105, 103, 46, 106, 115, 111, 110>>

\* 'config.JSON'
CONFIG_UPPER ==
    <<99, 111, 110, 102, 105, 103, 46, 74, 83, 79, 78>>

\* 'config.txt'
CONFIG_TXT ==
    <<99, 111, 110, 102, 105, 103, 46, 116, 120, 116>>

\* '.json'
HIDDEN_JSON ==
    <<46, 106, 115, 111, 110>>

\* 'config'
CONFIG_BARE ==
    <<99, 111, 110, 102, 105, 103>>

\* 'config.json.bak'
CONFIG_BAK ==
    <<99, 111, 110, 102, 105, 103, 46, 106, 115, 111, 110, 46, 98, 97,
      107>>

\* 'conf.d/app.json'
NESTED_JSON ==
    <<99, 111, 110, 102, 46, 100, 47, 97, 112, 112, 46, 106, 115, 111,
      110>>

\* 'conf.json/app'
NESTED_BARE ==
    <<99, 111, 110, 102, 46, 106, 115, 111, 110, 47, 97, 112, 112>>

\* 'config.json/.'
CONFIG_DOT ==
    <<99, 111, 110, 102, 105, 103, 46, 106, 115, 111, 110, 47, 46>>

\* 'config.'
CONFIG_TRAILING ==
    <<99, 111, 110, 102, 105, 103, 46>>

\* '//etc///app.json/'
ROOTED_JSON ==
    <<47, 47, 101, 116, 99, 47, 47, 47, 97, 112, 112, 46, 106, 115, 111,
      110, 47>>

\* './'
CURRENT ==
    <<46, 47>>

ConfigPaths ==
    {CONFIG_JSON, CONFIG_UPPER, CONFIG_TXT, HIDDEN_JSON, CONFIG_BARE,
     CONFIG_BAK, NESTED_JSON, NESTED_BARE, CONFIG_DOT, CONFIG_TRAILING,
     ROOTED_JSON, CURRENT}

LoadConfigCalls ==
    {[fn |-> "load_config_from_path", config_path |-> CONFIG_JSON, is_file |-> TRUE,
      document |-> d, required_keys |-> r, config_uuid |-> u] :
        d \in Documents \cup {<<[key |-> k, value |-> ("a" :> 1) @@ ("b" :> 2)]>> : k \in MoreKeys},
        r \in LoadRequired, u \in Targets}
    \cup
    {[fn |-> "load_config_from_path", config_path |-> p, is_file |-> f,
      document |-> <<[key |-> KEY_LOWER, value |-> ("a" :> 1) @@ ("b" :> 2)]>>,
      required_keys |-> SetOf({"a"}), config_uuid |-> UUID(KEY_LOWER).int] :
        p \in ConfigPaths, f \in BOOLEAN}

\* how long the environment strings are at most
MaxEnvLen == 5

\* the characters A = space + " and the line feed
EnvChars == {UPPER_A, EQUALS, SPACE, PLUS, QUOTE, LINE_FEED}

\* '\nFOO=bar\nBAZ=qux\n'
EXAMPLE_ENV ==
    <<10, 70, 79, 79, 61, 98, 97, 114, 10, 66, 65, 90, 61, 113, 117, 120, 10>>

\* 'FOO = bar\nFOO\t=\t"qux"'
SPACED_ENV ==
    <<70, 79, 79, 32, 61, 32, 98, 97, 114, 10, 70, 79, 79, 9, 61, 9, 34, 113, 117, 120, 34>>

\* 'A = B' and 'C = D' with a form feed between them
FORM_FEED_ENV ==
    <<65, 32, 61, 32, 66, 12, 67, 32, 61, 32, 68>>

\* 'A = B', where the spaces are the no-break space 0xa0 and the unit separator
\* 0x1f, the file separator 0x1c, 'C = D', where the spaces are the
\* ideographic space and the em space, and the next line character 0x85
SEPARATOR_ENV ==
    <<65, 160, 61, 31, 66, 28, 67, 12288, 61, 8195, 68, 133>>

\* 'A=B', the unit separator 0x1f, 'C=D' and the line separator
UNIT_SEPARATOR_ENV ==
    <<65, 61, 66, 31, 67, 61, 68, 8232>>

EnvStrings ==
    UNION {[1 .. n -> EnvChars] : n \in 0 .. MaxEnvLen}
        \cup {EXAMPLE_ENV, SPACED_ENV, FORM_FEED_ENV, SEPARATOR_ENV, UNIT_SEPARATOR_ENV}

EnvCalls == {[fn |-> "env_string_to_dict", env_string |-> e] : e \in EnvStrings}

Calls == NumberCalls \cup CheckKeysCalls \cup LoadConfigCalls \cup EnvCalls

Init ==
    /\ \E c \in Calls : op = c.fn /\ input = c
    /\ output = Pending
    /\ opened = 0
    /\ fs = {}
    /\ returned = <<>>

GetOptimalIntype ==
    /\ op = "get_optimal_intype"
    /\ output = Pending
    /\ output' = Return(get_optimal_intype(input.number))
    /\ UNCHANGED <<op, input, opened, fs, returned>>

GetOptimalUintype ==
    /\ op = "get_optimal_uintype"
    /\ output = Pending
    /\ output' = Return(get_optimal_uintype(input.number))
    /\ UNCHANGED <<op, input, opened, fs, returned>>

CheckKeysNotMissing ==
    /\ op = "check_keys_not_missing"
    /\ output = Pending
    /\ output' \in check_keys_not_missing(input.required_keys, input.mapping, input.mapping_name)
    /\ UNCHANGED <<op, input, opened, fs, returned>>

LoadConfigFromPath ==
    /\ op = "load_config_from_path"
    /\ output = Pending
    /\ \E r \in load_config_from_path(input.config_path, input.is_file, input.document,
                                       input.required_keys, input.config_uuid) :
          /\ output' = r.out
          /\ opened' = opened + r.opened
    /\ UNCHANGED <<op, input, fs, returned>>

EnvStringToDict ==
    /\ op = "env_string_to_dict"
    /\ output = Pending
    /\ output' = env_string_to_dict(input.env_string)
    /\ UNCHANGED <<op, input, opened, fs, returned>>

Next ==
    \/ EnvStringToDict
    \/ GetOptimalIntype
    \/ GetOptimalUintype
    \/ CheckKeysNotMissing
    \/ LoadConfigFromPath

Spec == Init /\ [][Next]_vars

(***************************************************************************)
(* path.py: prevent_directory_override                                     *)
(*                                                                         *)
(* A path is the sequence of its components, each a string, <<>> being     *)
(* Path('.'), the directory the paths are relative to.  The file system is *)
(* the set of the existing directories, the set of the existing regular    *)
(* files and the set of the symbolic links whose target is missing, each   *)
(* entry named by the components that lead to it from that directory; the  *)
(* directories above it exist and are named <<'..'>>, <<'..', '..'>>, ...  *)
(***************************************************************************)

\* the longest name of an entry and the length from which on a path is too
\* long, in bytes
NAME_MAX == 255

PATH_MAX == 4096

\* '..'
DOTDOT == <<DOT, DOT>>

\* str(n)
Str(n) == [i \in DOMAIN SmallMag(n) |-> ZERO + SmallMag(n)[i]]

\* the characters os.fsencode cannot encode: the surrogates, but for the
\* ones that stand for a byte
IsSurrogate(c) == 55296 <= c /\ c <= 57343 /\ ~(56448 <= c /\ c <= 56575)

\* the bytes of a name in the encoding of the file system
NameBytes(name) ==
    Len(name)
        + Cardinality({i \in DOMAIN name : name[i] >= 128 /\ ~(56448 <= name[i] /\ name[i] <= 56575)})
        + Cardinality({i \in DOMAIN name : name[i] >= 2048 /\ ~(56448 <= name[i] /\ name[i] <= 56575)})
        + Cardinality({i \in DOMAIN name : name[i] >= 65536})

RECURSIVE PathBytes(_)
\* the bytes of str(path): the names and a slash between each two, '.' for
\* the path without components
PathBytes(path) ==
    IF path = <<>> THEN 1
    ELSE IF Len(path) = 1 THEN NameBytes(path[1])
    ELSE NameBytes(Head(path)) + 1 + PathBytes(Tail(path))

\* the exception with which the path cannot be passed to the operating
\* system, or none
Unencodable(path) ==
    IF \E i \in DOMAIN path : \E j \in DOMAIN path[i] : IsSurrogate(path[i][j])
    THEN "UnicodeEncodeError"
    ELSE IF \E i \in DOMAIN path : \E j \in DOMAIN path[i] : path[i][j] = 0
    THEN "ValueError"
    ELSE "none"

\* the directory above a directory
Up(at) ==
    IF at = <<>> \/ at[Len(at)] = DOTDOT THEN Append(at, DOTDOT)
    ELSE SubSeq(at, 1, Len(at) - 1)

\* the entry a component names in a directory
Step(at, name) == IF name = DOTDOT THEN Up(at) ELSE Append(at, name)

\* what an entry is
KindOf(filesystem, at) ==
    IF at \in filesystem.dirs \/ \A i \in DOMAIN at : at[i] = DOTDOT THEN "dir"
    ELSE IF at \in filesystem.files THEN "file"
    ELSE IF at \in filesystem.dangling THEN "dangling"
    ELSE "none"

RECURSIVE WalkFrom(_, _, _, _)
\* the walk of the operating system along the components of the path from
\* the i-th on, being at a directory: every component but the last must
\* lead to a directory, and no name may be too long
WalkFrom(filesystem, path, i, at) ==
    IF i > Len(path) THEN [err |-> "ok", at |-> at, kind |-> "dir"]
    ELSE IF NameBytes(path[i]) > NAME_MAX THEN [err |-> "ENAMETOOLONG"]
    ELSE IF i = Len(path)
    THEN [err |-> "ok", at |-> Step(at, path[i]), kind |-> KindOf(filesystem, Step(at, path[i]))]
    ELSE IF KindOf(filesystem, Step(at, path[i])) = "dir"
    THEN WalkFrom(filesystem, path, i + 1, Step(at, path[i]))
    ELSE IF KindOf(filesystem, Step(at, path[i])) = "file" THEN [err |-> "ENOTDIR"]
    ELSE [err |-> "ENOENT"]

\* the entry the path leads to, or the error of the walk
Lookup(filesystem, path) ==
    Only({IF reason # "none" THEN [err |-> reason]
          ELSE IF PathBytes(path) >= PATH_MAX THEN [err |-> "ENAMETOOLONG"]
          ELSE WalkFrom(filesystem, path, 1, <<>>) :
          reason \in {Unencodable(path)}})

\* os.stat(path), symbolic links followed
Stat(filesystem, path) ==
    Only({IF r.err # "ok" THEN r
          ELSE IF r.kind \in {"none", "dangling"} THEN [err |-> "ENOENT"]
          ELSE r :
          r \in {Lookup(filesystem, path)}})

\* Path.exists: whether the path leads to an entry; the errors of a missing
\* entry and of a path that cannot be encoded are a no, any other is raised
Exists(filesystem, path) ==
    Only({IF r.err = "ok" THEN [raised |-> FALSE, value |-> TRUE]
          ELSE IF r.err = "ENAMETOOLONG" THEN [raised |-> TRUE, exc |-> "OSError"]
          ELSE [raised |-> FALSE, value |-> FALSE] :
          r \in {Stat(filesystem, path)}})

\* Path.is_dir, where it is asked of a path not too long
IsDir(filesystem, path) ==
    Only({r.err = "ok" /\ r.kind = "dir" : r \in {Stat(filesystem, path)}})

\* the exception of an error of the operating system
ExceptionOf(err) ==
    CASE err = "EEXIST" -> "FileExistsError"
      [] err = "ENOENT" -> "FileNotFoundError"
      [] err = "ENOTDIR" -> "NotADirectoryError"
      [] err = "ENAMETOOLONG" -> "OSError"
      [] OTHER -> err

\* os.mkdir(path): the path must lead to no entry, and to it through
\* directories
OsMkdir(filesystem, path) ==
    Only({IF r.err # "ok" THEN [err |-> r.err, fs |-> filesystem]
          ELSE IF r.kind # "none" THEN [err |-> "EEXIST", fs |-> filesystem]
          ELSE [err |-> "ok", fs |-> [filesystem EXCEPT !.dirs = @ \cup {r.at}]] :
          r \in {Lookup(filesystem, path)}})

\* PurePath.name of a path given by its components
LastName(path) == IF path = <<>> THEN <<>> ELSE path[Len(path)]

\* PurePath.parent
Parent(path) == IF path = <<>> THEN <<>> ELSE SubSeq(path, 1, Len(path) - 1)

RECURSIVE Mkdir(_, _, _, _)
\* Path.mkdir(parents, exist_ok): os.mkdir; on a missing ancestor the parent
\* is made first, an existing one being accepted, and os.mkdir is tried
\* again; any other error is raised unless exist_ok and the path is a
\* directory.  The result is the exception raised, if any, the path it
\* names and the file system left.
Mkdir(filesystem, path, parents, exist_ok) ==
    Only({IF r.err = "ok" THEN [ok |-> TRUE, fs |-> r.fs]
          ELSE IF r.err \in {"ValueError", "UnicodeEncodeError"}
          THEN [ok |-> FALSE, exc |-> r.err, path |-> path, fs |-> filesystem]
          ELSE IF r.err = "ENOENT"
          THEN IF ~parents \/ Parent(path) = path
               THEN [ok |-> FALSE, exc |-> "FileNotFoundError", path |-> path, fs |-> filesystem]
               ELSE Only({IF ~above.ok THEN above
                          ELSE Mkdir(above.fs, path, FALSE, exist_ok) :
                          above \in {Mkdir(filesystem, Parent(path), TRUE, TRUE)}})
          ELSE IF ~exist_ok \/ r.err = "ENAMETOOLONG" \/ ~IsDir(filesystem, path)
          THEN [ok |-> FALSE, exc |-> ExceptionOf(r.err), path |-> path, fs |-> filesystem]
          ELSE [ok |-> TRUE, fs |-> filesystem] :
          r \in {OsMkdir(filesystem, path)}})

\* path.with_stem(f'{path.name} {n}'): the new stem followed by the old suffix
WithStem(path, n) ==
    SubSeq(path, 1, Len(path) - 1)
        \o <<LastName(path) \o <<SPACE>> \o Str(n) \o NameSuffix(LastName(path))>>

\* the loop with an if in the place of the while: one renaming at most
ProbeOnce(filesystem, path, n) ==
    Only({IF e.raised THEN [kind |-> "raise", exc |-> e.exc, path |-> path]
          ELSE IF ~e.value THEN [kind |-> "free", path |-> path, loops |-> n]
          ELSE IF LastName(path) = <<>>
          THEN [kind |-> "raise", exc |-> "ValueError", path |-> path]
          ELSE [kind |-> "free", path |-> WithStem(path, n), loops |-> n + 1] :
          e \in {Exists(filesystem, path)}})

RECURSIVE Probe(_, _, _)
\* the while loop: the first candidate that does not exist and the number of
\* renamings made, or the OSError of exists on a name too long, or the
\* ValueError of with_stem on a path without a name
Probe(filesystem, path, n) ==
    Only({IF e.raised THEN [kind |-> "raise", exc |-> e.exc, path |-> path]
          ELSE IF ~e.value THEN [kind |-> "free", path |-> path, loops |-> n]
          ELSE IF LastName(path) = <<>>
          THEN [kind |-> "raise", exc |-> "ValueError", path |-> path]
          ELSE Probe(filesystem, WithStem(path, n), n + 1) :
          e \in {Exists(filesystem, path)}})

\* the result of prevent_directory_override and the file system it leaves
prevent_directory_override(filesystem, new_directory_path) ==
    Only({IF found.kind = "raise"
          THEN [out |-> Raise(found.exc,
                               IF found.exc = "ValueError"
                               THEN <<found.path, " has an empty name">>
                               ELSE <<found.path>>),
                fs |-> filesystem]
          ELSE Only({IF made.ok
                     THEN [out |-> [kind |-> "return", value |-> found.path,
                                    loops |-> found.loops],
                           fs |-> made.fs]
                     ELSE [out |-> Raise(made.exc, <<made.path>>), fs |-> made.fs] :
                     made \in {Mkdir(filesystem, found.path, TRUE, FALSE)}}) :
          found \in {Probe(filesystem, new_directory_path, 0)}})

\* how many directories are created at most
MaxCalls == 3

\* 'out'
OUT ==
    <<111, 117, 116>>

\* 'out.d'
OUT_D ==
    <<111, 117, 116, 46, 100>>

\* 'd'
DIR_D ==
    <<100>>

\* 'f'
FILE_F ==
    <<102>>

\* 'l'
LINK_L ==
    <<108>>

\* 'a'
NEW_A ==
    <<97>>

\* a name of 252 bytes: the letter n, 252 times
LONG_NAME == [i \in 1 .. NAME_MAX - 3 |-> 110]

\* a path of 4300 bytes: seventeen names of 252 bytes, each 63 times a
\* character of four bytes, and the slashes between them
LONG_PATH == [i \in 1 .. 17 |-> [j \in 1 .. 63 |-> 128193]]

\* among them 'a/../out', 'out' followed by the null character and 'out'
\* followed by a surrogate that stands for no byte
DesiredPaths ==
    {<<OUT>>, <<OUT_D>>, <<DIR_D, OUT>>, <<FILE_F, OUT>>, <<>>,
     <<NEW_A, DOTDOT, OUT>>, <<LINK_L>>,
     <<LONG_NAME>>, <<OUT \o <<0>>>>, <<OUT \o <<55296>>>>, LONG_PATH}

Filesystem(dirs, files, dangling) ==
    [dirs |-> {<<>>} \cup dirs, files |-> files, dangling |-> dangling]

InitialFilesystems ==
    {Filesystem({}, {}, {}),
     Filesystem({}, {<<OUT>>, <<FILE_F>>}, {}),
     Filesystem({<<OUT>>, <<OUT \o <<SPACE, ZERO>>>>}, {<<FILE_F>>}, {}),
     Filesystem({<<DIR_D>>, <<DIR_D, OUT>>}, {<<OUT_D>>}, {}),
     Filesystem({<<OUT>>, <<LONG_NAME>>}, {}, {<<LINK_L>>}),
     Filesystem({<<OUT>>}, {}, {<<OUT \o <<SPACE, ZERO>>>>})}

InitPath ==
    /\ op = "prevent_directory_override"
    /\ input = [fn |-> "prevent_directory_override"]
    /\ output = Pending
    /\ opened = 0
    /\ fs \in InitialFilesystems
    /\ returned = <<>>

PreventDirectoryOverride ==
    /\ Len(returned) < MaxCalls
    /\ \E path \in DesiredPaths :
          /\ input' = [fn |-> "prevent_directory_override", new_directory_path |-> path]
          /\ \E r \in {prevent_directory_override(fs, path)} :
                /\ output' = r.out
                /\ fs' = r.fs
                /\ returned' = IF r.out.kind = "return"
                               THEN Append(returned, r.out.value) ELSE returned
    /\ UNCHANGED <<op, opened>>

NextPath == PreventDirectoryOverride

SpecPath == InitPath /\ [][NextPath]_vars

(***************************************************************************)
(* Properties of numbers.py                                                *)
(***************************************************************************)

IsNumberCall == op \in {"get_optimal_intype", "get_optimal_uintype"}

Returned == output.kind = "return"

\* the rows of the two threshold tables: bound, inclusive or not, category
SignedTable ==
    << <<SmallInt(127), TRUE, "int8">>,
       <<SmallInt(32767), TRUE, "int16">>,
       <<SmallInt(2147483647), TRUE, "int32">>,
       <<Nat10(<<9,2,2,3,3,7,2,0,3,6,8,5,4,7,7,5,8,0,7>>), TRUE, "int64">>,
       <<FLOAT32_MAX, TRUE, "float32">> >>

UnsignedTable ==
    << <<SmallInt(255), FALSE, "uint8">>,
       <<SmallInt(65535), FALSE, "uint16">>,
       <<IntAdd(Pow2(32), SmallInt(-1)), FALSE, "uint32">>,
       <<Nat10(<<1,8,4,4,6,7,4,4,0,7,3,7,0,9,5,5,1,6,1,5>>), FALSE, "uint64">>,
       <<FLOAT32_MAX, TRUE, "float32">> >>

Satisfies(n, row) == IF row[2] THEN IntLeq(n, row[1]) ELSE IntLess(n, row[1])

FirstSatisfied(table, n) ==
    LET hits == {i \in 1 .. Len(table) : Satisfies(n, table[i])}
    IN  IF hits = {} THEN "float64" ELSE table[SetMin(hits)][3]

Example(fn, n, category) ==
    (op = fn /\ input.number = n /\ Returned) => output.value = category

\* C5: each selector returns the category of the first threshold of its table,
\* in ascending order, that the value satisfies (signed bounds inclusive,
\* unsigned integer bounds exclusive), else float64; signed 127 is int8, 128
\* int16, 2^63 - 1 int64, unsigned 254 uint8, 255 uint16, 10^40 float64 for both.
C5_FirstThreshold ==
    /\ (op = "get_optimal_intype" /\ Returned)
          => output.value = FirstSatisfied(SignedTable, input.number)
    /\ (op = "get_optimal_uintype" /\ Returned)
          => output.value = FirstSatisfied(UnsignedTable, input.number)
    /\ Example("get_optimal_intype", SmallInt(127), "int8")
    /\ Example("get_optimal_intype", SmallInt(128), "int16")
    /\ Example("get_optimal_intype", IntAdd(Pow2(63), SmallInt(-1)), "int64")
    /\ Example("get_optimal_intype", Pow10(40), "float64")
    /\ Example("get_optimal_uintype", SmallInt(254), "uint8")
    /\ Example("get_optimal_uintype", SmallInt(255), "uint16")
    /\ Example("get_optimal_uintype", Pow10(40), "float64")

\* the unsigned selector has answered uint16 for 255
C5_Witness ==
    /\ op = "get_optimal_uintype"
    /\ input.number = SmallInt(255)
    /\ Returned
    /\ output.value = "uint16"

Widths == {8, 16, 32, 64}

SignedName(w) == CASE w = 8 -> "int8" [] w = 16 -> "int16" [] w = 32 -> "int32" [] w = 64 -> "int64"

UnsignedName(w) == CASE w = 8 -> "uint8" [] w = 16 -> "uint16" [] w = 32 -> "uint32" [] w = 64 -> "uint64"

\* n lies in [-2^(w-1), 2^(w-1) - 1]
FitsSigned(n, w) ==
    /\ IntLeq(IntNeg(Pow2(w - 1)), n)
    /\ IntLess(n, Pow2(w - 1))

\* n lies in [0, 2^w - 1]
FitsUnsigned(n, w) ==
    /\ IntLeq(SmallInt(0), n)
    /\ IntLess(n, Pow2(w))

\* C6: for -2^63 <= n <= 2^63 - 1 the signed selector returns the smallest of
\* int8, int16, int32, int64 whose range contains n.
C6_SmallestSigned ==
    (op = "get_optimal_intype" /\ Returned /\ FitsSigned(input.number, 64))
        => output.value = SignedName(SetMin({w \in Widths : FitsSigned(input.number, w)}))

\* C7: for 0 <= n <= 2^64 - 1 the unsigned selector returns the smallest of
\* uint8, uint16, uint32, uint64 whose range contains n.
C7_SmallestUnsigned ==
    (op = "get_optimal_uintype" /\ Returned /\ FitsUnsigned(input.number, 64))
        => output.value = UnsignedName(SetMin({w \in Widths : FitsUnsigned(input.number, w)}))

\* C8: for a negative number the unsigned selector raises ValueError and
\* returns no type.
C8_NegativeRaises ==
    (op = "get_optimal_uintype" /\ output # Pending /\ input.number.neg)
        => (output.kind = "raise" /\ output.exc = "ValueError")

(***************************************************************************)
(* Properties of loading.py                                                *)
(***************************************************************************)

Finished == output # Pending

RequiredSet(required_keys) ==
    IF required_keys.is_set THEN required_keys.set
    ELSE {required_keys.list[i] : i \in DOMAIN required_keys.list}

\* the call is load_config_from_path on an existing .json file and is over
LoadedJson ==
    /\ op = "load_config_from_path"
    /\ Finished
    /\ input.is_file
    /\ PathSuffix(input.config_path) = DOT_JSON

\* the key of entry i of the document parses to the identifier asked for
ParsesToTarget(i) ==
    /\ UUID(input.document[i].key).ok
    /\ UUID(input.document[i].key).int = input.config_uuid

HasRequired(i) == RequiredSet(input.required_keys) \subseteq DOMAIN input.document[i].value

IsKeyNotFound ==
    /\ output.kind = "raise"
    /\ output.exc = "KeyError"
    /\ output.message[1] = "config_uuid "

\* C1 as stated: for every entry whose key parses to the identifier and that
\* has all the required fields, the call returns exactly that entry's record
\* and raises nothing.
C1_ReturnsAnyMatchingEntry ==
    LoadedJson =>
        \A i \in DOMAIN input.document :
            (ParsesToTarget(i) /\ HasRequired(i)) => output = Return(input.document[i].value)

\* C1 amended: that holds of the first entry, in document order, whose key
\* parses to the identifier: when it has all the required fields, the call
\* returns exactly its record, extra fields included, and raises nothing.
C1_ReturnsFirstMatchingEntry ==
    LoadedJson =>
        \A i \in DOMAIN input.document :
            (/\ ParsesToTarget(i)
             /\ \A j \in 1 .. i - 1 : ~ParsesToTarget(j)
             /\ HasRequired(i)) => output = Return(input.document[i].value)

\* of two entries whose keys parse to the identifier asked for, the record of
\* the first has been returned, with a field that was not required
C1_Witness ==
    /\ LoadedJson
    /\ Len(input.document) = 2
    /\ ParsesToTarget(1)
    /\ ParsesToTarget(2)
    /\ input.document[1].value # input.document[2].value
    /\ output = Return(input.document[1].value)
    /\ "c" \in DOMAIN output.value
    /\ "c" \notin RequiredSet(input.required_keys)

\* C2: when no key of the document parses to the identifier asked for, the
\* empty document and documents of unparsable keys included, the call fails
\* with the KeyError of the lookup and with nothing else.
C2_KeyNotFound ==
    (LoadedJson /\ \A i \in DOMAIN input.document : ~ParsesToTarget(i)) => IsKeyNotFound

\* the lookup has failed on a document holding an unparsable key and a key
\* that parses to another identifier
C2_Witness ==
    /\ LoadedJson
    /\ IsKeyNotFound
    /\ \E i, j \in DOMAIN input.document :
          /\ ~UUID(input.document[i].key).ok
          /\ UUID(input.document[j].key).ok

\* C3: check_keys_not_missing returns normally when every required name is a
\* key of the record, and otherwise fails with a KeyError whose message lists
\* every missing name and no present name.
C3_ListsExactlyMissing ==
    (op = "check_keys_not_missing" /\ Finished) =>
        LET required == RequiredSet(input.required_keys)
            missing == required \ DOMAIN input.mapping
        IN  IF missing = {}
            THEN output = Return(None)
            ELSE /\ output.kind = "raise"
                 /\ output.exc = "KeyError"
                 /\ \A k \in required \cup DOMAIN input.mapping :
                        (\E i \in DOMAIN output.message : output.message[i] = k) <=> k \in missing

\* a KeyError lists two missing names while a third required name is present
C3_Witness ==
    /\ op = "check_keys_not_missing"
    /\ Finished
    /\ output.kind = "raise"
    /\ Cardinality(RequiredSet(input.required_keys) \ DOMAIN input.mapping) = 2
    /\ RequiredSet(input.required_keys) \cap DOMAIN input.mapping # {}

\* C4 as stated: for every path whose suffix is not '.json' the call fails
\* with TypeError, before the file is read.
C4_NotJsonIsTypeError ==
    (op = "load_config_from_path" /\ Finished /\ PathSuffix(input.config_path) # DOT_JSON)
        => (output.kind = "raise" /\ output.exc = "TypeError" /\ opened = 0)

\* C4 amended: for every path of an existing file whose suffix is not '.json'
\* the call fails with TypeError before the file is read; a path that is not
\* an existing file fails with FileNotFoundError whatever its suffix.
C4_ExistingNotJsonIsTypeError ==
    (op = "load_config_from_path" /\ Finished) =>
        /\ (input.is_file /\ PathSuffix(input.config_path) # DOT_JSON)
              => (output.kind = "raise" /\ output.exc = "TypeError" /\ opened = 0)
        /\ ~input.is_file
              => (output.kind = "raise" /\ output.exc = "FileNotFoundError" /\ opened = 0)

\* an existing file named config.JSON has been refused unread
C4_Witness ==
    /\ op = "load_config_from_path"
    /\ Finished
    /\ input.is_file
    /\ input.config_path = CONFIG_UPPER
    /\ output.kind = "raise"
    /\ output.exc = "TypeError"
    /\ opened = 0

\* a line of the form KEY=VALUE: one equals sign, a name before it and a
\* value after it, no whitespace
IsKeyValue(line) ==
    /\ Cardinality({i \in DOMAIN line : line[i] = EQUALS}) = 1
    /\ line[1] # EQUALS /\ line[Len(line)] # EQUALS
    /\ \A i \in DOMAIN line : line[i] \notin UnicodeWhitespace

KeyOf(line) == SubSeq(line, 1, (CHOOSE i \in DOMAIN line : line[i] = EQUALS) - 1)

ValueOf(line) == SubSeq(line, (CHOOSE i \in DOMAIN line : line[i] = EQUALS) + 1, Len(line))

\* C10: for a string whose non-empty lines all have the form KEY=VALUE,
\* env_string_to_dict returns the dictionary that maps each KEY to its VALUE,
\* quotation marks removed and empty lines ignored.
C10_KeyValueLines ==
    (op = "env_string_to_dict" /\ Finished) =>
        \A lines \in {EnvLines(input.env_string)} :
            (\A i \in DOMAIN lines : IsKeyValue(lines[i])) =>
                /\ output.kind = "return"
                /\ DOMAIN output.value = {KeyOf(lines[i]) : i \in DOMAIN lines}
                /\ \A i \in DOMAIN lines :
                       (\A j \in DOMAIN lines : KeyOf(lines[j]) = KeyOf(lines[i]) => j <= i)
                           => output.value[KeyOf(lines[i])] = ValueOf(lines[i])

(***************************************************************************)
(* Properties of path.py                                                   *)
(***************************************************************************)

EntriesOf(filesystem) == filesystem.dirs \cup filesystem.files \cup filesystem.dangling

Called == input'.fn = "prevent_directory_override" /\ "new_directory_path" \in DOMAIN input'

\* Path.exists answers no
Absent(filesystem, path) == Exists(filesystem, path) = [raised |-> FALSE, value |-> FALSE]

\* nothing that existed is removed or replaced
NothingLost ==
    /\ fs.dirs \subseteq fs'.dirs
    /\ fs'.files = fs.files
    /\ fs'.dangling = fs.dangling

\* what C9 says of the path a call returns: it did not exist before and is a
\* directory after, it was returned by no earlier call, a free desired path
\* is returned unchanged, and the loop ran no more often than there were
\* entries
CreatedFresh ==
    /\ output'.kind = "return"
    /\ Absent(fs, output'.value)
    /\ IsDir(fs', output'.value)
    /\ \A i \in DOMAIN returned : returned[i] # output'.value
    /\ returned' = Append(returned, output'.value)
    /\ output'.loops <= Cardinality(EntriesOf(fs))
    /\ (Absent(fs, input'.new_directory_path) => output'.value = input'.new_directory_path)

ProperPrefixes(path) == {SubSeq(path, 1, k) : k \in 0 .. Len(path) - 1}

RECURSIVE FirstFree(_, _, _)
\* the first of the candidates p, 'p 0', 'p 0 1', ... that names no entry
FirstFree(filesystem, path, n) ==
    IF path \notin EntriesOf(filesystem) THEN path
    ELSE FirstFree(filesystem, WithStem(path, n), n + 1)

\* the calls that C9 amended says return: the desired path has a name, no
\* '..' component and no character that cannot be encoded, the file system
\* has no dangling link and no regular file above the desired path, and the
\* first candidate that names no entry is within the limits of length
Serviceable(filesystem, path) ==
    /\ path # <<>>
    /\ \A i \in DOMAIN path : path[i] # DOTDOT
    /\ \A i \in DOMAIN path : \A j \in DOMAIN path[i] : path[i][j] # 0 /\ ~IsSurrogate(path[i][j])
    /\ filesystem.dangling = {}
    /\ ProperPrefixes(path) \cap filesystem.files = {}
    /\ \A free \in {FirstFree(filesystem, path, 0)} :
          /\ \A i \in DOMAIN free : NameBytes(free[i]) <= NAME_MAX
          /\ PathBytes(free) < PATH_MAX

====
